---- MODULE Spec2Model ----
(***************************************************************************)
(* Model of src/app.py (Folding Map Visualizer): the seed quadrilateral,   *)
(* the fold map, the orbit loop of plot_orbit_to_image, the backdrop and   *)
(* frame loops of animate_folding, and the top-level Streamlit script.     *)
(*                                                                         *)
(* Numbers.  A real is a pair <<n, d>>: d > 0 is the exact rational n/d in *)
(* lowest terms, d = 0 is a non-finite float (<<0,0>> NaN, <<1,0>> +inf,   *)
(* <<-1,0>> -inf).  Finite arithmetic is exact (no rounding); non-finite   *)
(* arithmetic follows IEEE 754 as numpy applies it.  A complex number is a *)
(* record [re, im] of two reals, as numpy.complex128 is.                   *)
(***************************************************************************)
EXTENDS Integers, Sequences, FiniteSets, TLC

\* ---------------------------------------------------------------- bounds
\* Largest iteration count a call or slider may carry in the model.
MaxIters == 5
\* Coordinates of the quadrilaterals handed to fold directly lie in -Grid..Grid.
Grid == 2
\* The reflection is checked on the first MirrorDepth folds of a run, whose
\* squared distances stay inside the checker's integers.
MirrorDepth == 3

\* ------------------------------------------------------------- real numbers
Abs(n) == IF n < 0 THEN -n ELSE n

Min(a, b) == IF a < b THEN a ELSE b

Sgn(n) == IF n < 0 THEN -1 ELSE IF n > 0 THEN 1 ELSE 0

RECURSIVE GCD(_, _)
GCD(a, b) == IF b = 0 THEN a ELSE GCD(b, a % b)

NaN == <<0, 0>>

Zero == <<0, 1>>

One == <<1, 1>>

\* The rational n/d (d # 0) in lowest terms with a positive denominator.  The
\* operations below cancel common factors before they multiply, which keeps
\* the intermediate integers small and does not change the value.
R(n, d) ==
    LET g == GCD(Abs(n), Abs(d))
        s == IF d < 0 THEN -1 ELSE 1
    IN  <<(s * n) \div g, (s * d) \div g>>

IsNaN(x) == x = NaN

IsInf(x) == x[2] = 0 /\ x[1] # 0

IsFin(x) == x[2] # 0

RNeg(x) == <<-x[1], x[2]>>

RAdd(x, y) ==
    IF IsNaN(x) \/ IsNaN(y) THEN NaN
    ELSE IF IsInf(x) THEN (IF IsInf(y) /\ y # x THEN NaN ELSE x)
    ELSE IF IsInf(y) THEN y
    ELSE LET g == GCD(x[2], y[2])
         IN  R(x[1] * (y[2] \div g) + y[1] * (x[2] \div g), (x[2] \div g) * y[2])

RSub(x, y) == RAdd(x, RNeg(y))

RMul(x, y) ==
    IF IsNaN(x) \/ IsNaN(y) THEN NaN
    ELSE IF IsInf(x) \/ IsInf(y)
         THEN (IF x[1] = 0 \/ y[1] = 0 THEN NaN ELSE <<Sgn(x[1]) * Sgn(y[1]), 0>>)
    ELSE LET g1 == GCD(Abs(x[1]), y[2])
             g2 == GCD(Abs(y[1]), x[2])
         IN  R((x[1] \div g1) * (y[1] \div g2), (x[2] \div g2) * (y[2] \div g1))

RDiv(x, y) ==
    IF IsNaN(x) \/ IsNaN(y) THEN NaN
    ELSE IF IsInf(y) THEN (IF IsInf(x) THEN NaN ELSE Zero)
    ELSE IF y[1] = 0 THEN (IF x[1] = 0 THEN NaN ELSE <<Sgn(x[1]), 0>>)
    ELSE IF IsInf(x) THEN <<Sgn(x[1]) * Sgn(y[1]), 0>>
    ELSE RMul(x, <<Sgn(y[1]) * y[2], Abs(y[1])>>)

\* Integer square root of a perfect square.
ISqrt(n) == CHOOSE r \in 0..n : r * r = n

\* np.sqrt of a real float: NaN for a negative argument (numpy warns, does not
\* raise, and does not switch to the complex root), the non-negative root
\* otherwise.  Exact for the arguments whose root is rational.
NpSqrt(x) ==
    IF ~IsFin(x) THEN (IF x = <<1, 0>> THEN x ELSE NaN)
    ELSE IF x[1] < 0 THEN NaN
    ELSE <<ISqrt(x[1]), ISqrt(x[2])>>

\* ---------------------------------------------------------- complex numbers
Cx(a, b) == [re |-> a, im |-> b]

FromReal(x) == Cx(x, Zero)

J == Cx(Zero, One)

CAdd(a, b) == Cx(RAdd(a.re, b.re), RAdd(a.im, b.im))

CSub(a, b) == Cx(RSub(a.re, b.re), RSub(a.im, b.im))

CConj(a) == Cx(a.re, RNeg(a.im))

CNeg(a) == Cx(RNeg(a.re), RNeg(a.im))

CMul(a, b) ==
    Cx(RSub(RMul(a.re, b.re), RMul(a.im, b.im)),
       RAdd(RMul(a.re, b.im), RMul(a.im, b.re)))

\* CDiv with a guard that turns division by zero into zero.
CDivZeroGuard(a, b) ==
    IF b.re = Zero /\ b.im = Zero
    THEN Cx(Zero, Zero)
    ELSE LET d == RAdd(RMul(b.re, b.re), RMul(b.im, b.im))
             n == CMul(a, CConj(b))
         IN  Cx(RDiv(n.re, d), RDiv(n.im, d))

\* numpy's complex division: a zero divisor divides both components by 0.0
\* (0/0 is NaN, x/0 is an infinity); otherwise the quotient a*conj(b)/|b|^2,
\* which is what Smith's algorithm computes when nothing is rounded.
CDiv(a, b) ==
    IF b.re = Zero /\ b.im = Zero
    THEN Cx(RDiv(a.re, Zero), RDiv(a.im, Zero))
    ELSE LET d == RAdd(RMul(b.re, b.re), RMul(b.im, b.im))
             n == CMul(a, CConj(b))
         IN  Cx(RDiv(n.re, d), RDiv(n.im, d))

\* np.isfinite of a complex number.
Finite(z) == IsFin(z.re) /\ IsFin(z.im)

\* The == of two complex floats: false as soon as a component is NaN.
CEq(a, b) == ~IsNaN(a.re) /\ ~IsNaN(a.im) /\ ~IsNaN(b.re) /\ ~IsNaN(b.im) /\ a = b

\* Squared distance between two points.
Dist2(a, b) ==
    LET d == CSub(a, b) IN RAdd(RMul(d.re, d.re), RMul(d.im, d.im))

\* ------------------------------------------------------------------- fold
\* fold that puts the folded vertex first instead of rotating the roles.
foldNoRotate(q) ==
    LET v0 == q[1]
        v1 == q[2]
        v2 == q[3]
        v3 == q[4]
        v0_folded == CAdd(CDiv(CMul(CConj(CSub(v0, v1)), CSub(v3, v1)),
                               CConj(CSub(v3, v1))), v1)
    IN  <<v0_folded, v1, v2, v3>>

\* fold whose divisor is v3 - v1 instead of its conjugate.
foldPlainDivisor(q) ==
    LET v0 == q[1]
        v1 == q[2]
        v2 == q[3]
        v3 == q[4]
        v0_folded == CAdd(CDiv(CMul(CConj(CSub(v0, v1)), CSub(v3, v1)),
                               CSub(v3, v1)), v1)
    IN  <<v1, v2, v3, v0_folded>>

\* fold(v0, v1, v2, v3) on the quadrilateral q = <<v0, v1, v2, v3>>.
fold(q) ==
    LET v0 == q[1]
        v1 == q[2]
        v2 == q[3]
        v3 == q[4]
        v0_folded == CAdd(CDiv(CMul(CConj(CSub(v0, v1)), CSub(v3, v1)),
                               CConj(CSub(v3, v1))), v1)
    IN  <<v1, v2, v3, v0_folded>>

\* fold applied k times.
RECURSIVE FoldN(_, _)
FoldN(q, k) == IF k = 0 THEN q ELSE fold(FoldN(q, k - 1))

\* ------------------------------------------------------------------- seed
\* 1 + mu*nu - mu - nu, evaluated left to right.
Radicand(m, n) == RSub(RSub(RAdd(One, RMul(m, n)), m), n)

\* The seed of plot_orbit_to_image.
SeedPlot(m, n) ==
    LET v0 == CAdd(FromReal(RNeg(NpSqrt(Radicand(m, n)))), CMul(J, FromReal(m)))
        v1 == CAdd(FromReal(NpSqrt(Radicand(m, n))), CMul(J, FromReal(n)))
        v2 == CConj(v1)
        v3 == CConj(v0)
    IN  <<v0, v1, v2, v3>>

\* The seed of the backdrop orbit of animate_folding.
SeedBackdrop(m, n) ==
    LET v0_orbit == CAdd(FromReal(RNeg(NpSqrt(Radicand(m, n)))), CMul(J, FromReal(m)))
        v1_orbit == CAdd(FromReal(NpSqrt(Radicand(m, n))), CMul(J, FromReal(n)))
        v2_orbit == CConj(v1_orbit)
        v3_orbit == CConj(v0_orbit)
    IN  <<v0_orbit, v1_orbit, v2_orbit, v3_orbit>>

\* The seed of the frame loop of animate_folding.
SeedFrames(m, n) ==
    LET v0 == CAdd(FromReal(RNeg(NpSqrt(Radicand(m, n)))), CMul(J, FromReal(m)))
        v1 == CAdd(FromReal(NpSqrt(Radicand(m, n))), CMul(J, FromReal(n)))
        v2 == CConj(v1)
        v3 == CConj(v0)
    IN  <<v0, v1, v2, v3>>

\* list.extend([v0, v1, v2, v3]) of the orbit loops.
ExtendPoints(points, q) == points \o <<q[1], q[2], q[3], q[4]>>

\* An append that stores the first two vertices in the wrong order.
AppendFrameSwapped(fs, q) == Append(fs, <<q[2], q[1], q[3], q[4]>>)

\* frames.append((v0, v1, v2, v3)).
AppendFrame(fs, q) == Append(fs, <<q[1], q[2], q[3], q[4]>>)

\* A frame sequence flattened: each frame's v0..v3 in order, frames in order.
RECURSIVE Flatten(_)
Flatten(fs) == IF fs = <<>> THEN <<>> ELSE Head(fs) \o Flatten(Tail(fs))

\* ----------------------------------------------------------------- inputs
\* The parameter pairs (mu, nu) of the model, in tenths (the sliders step by
\* 0.1 in -5.0..5.0).  Each has a radicand 1 + mu*nu - mu - nu that is negative
\* or has a rational square root, so every value of a run is exact:
\*   positive radicand: squares, rectangles and trapezoids, (5, 5) being the
\*     sliders' default;
\*   zero radicand: all four vertices on the imaginary axis;
\*   negative radicand: exactly one of mu, nu above 1.
Params ==
    {<<0, 0>>, <<5, 5>>, <<-10, -10>>, <<20, 20>>, <<-35, 5>>, <<-26, -6>>,
     <<-6, 6>>, <<0, -30>>,
     <<10, -10>>, <<-10, 10>>, <<10, 10>>, <<10, 0>>, <<0, 10>>,
     <<20, 5>>, <<5, 20>>, <<20, 0>>}

\* Points with integer coordinates in -Grid..Grid.
GridPoints == {Cx(<<a, 1>>, <<b, 1>>) : a \in -Grid..Grid, b \in -Grid..Grid}

\* The default of iters_orbit (parameter default and script default).
ItersOrbitDefault == 1000

ModePlot == "Plot Orbit"

ModeAnimate == "Animate Folding"

\* ------------------------------------------------------------------ state
VARIABLES
    entry,          \* what is invoked: the two plotting functions, the script, or fold
    pc,             \* position in the invoked code
    mode,           \* sidebar radio
    generate,       \* the button of the selected mode
    names,          \* names bound in the script's namespace so far
    error,          \* exception that ended the script run, "none" if none
    shown,          \* what the run displayed
    mu, nu,         \* parameters
    iters,          \* iteration count (argument / slider)
    orbit,          \* backdrop flag (argument / checkbox)
    iters_orbit,    \* backdrop iteration count
    po_v, po_i, all_points,         \* plot_orbit_to_image: v0..v3, loop count, points
    ob_v, ob_i, orbit_points,       \* animate_folding backdrop: v0_orbit.., count, points
    af_v, af_i, frames,             \* animate_folding frames: v0..v3, loop count, frames
    fold_in, fold_out               \* argument and result of a direct fold call

vars == <<entry, pc, mode, generate, names, error, shown, mu, nu, iters, orbit,
          iters_orbit, po_v, po_i, all_points, ob_v, ob_i, orbit_points,
          af_v, af_i, frames, fold_in, fold_out>>

scriptVars == <<mode, generate, names, error, shown>>

argVars == <<entry, mu, nu, iters, orbit, iters_orbit>>

plotVars == <<po_v, po_i, all_points>>

backdropVars == <<ob_v, ob_i, orbit_points>>

frameVars == <<af_v, af_i, frames>>

foldVars == <<fold_in, fold_out>>

\* Locals of the three loops before their function has run.
NoLocals ==
    /\ po_v = <<>> /\ po_i = 0 /\ all_points = <<>>
    /\ ob_v = <<>> /\ ob_i = 0 /\ orbit_points = <<>>
    /\ af_v = <<>> /\ af_i = 0 /\ frames = <<>>
    /\ fold_out = <<>>

\* The two plotting functions called with the same (mu, nu, iters); a negative
\* count is an argument a caller can pass.
InitFunctions ==
    /\ entry = "functions" /\ pc = "call_plot_orbit"
    /\ \E p \in Params : mu = R(p[1], 10) /\ nu = R(p[2], 10)
    /\ iters \in -1..MaxIters
    /\ orbit \in BOOLEAN
    /\ iters_orbit \in IF orbit THEN -1..MaxIters ELSE {ItersOrbitDefault}
    /\ mode = ModePlot /\ generate = FALSE
    /\ fold_in = <<>>

\* One run of the script: the widgets hold the user's choices.  The iteration
\* sliders are cut to 1..MaxIters.
InitScript ==
    /\ entry = "script" /\ pc = "script_sidebar"
    /\ \E p \in Params : mu = R(p[1], 10) /\ nu = R(p[2], 10)
    /\ mode \in {ModePlot, ModeAnimate}
    /\ generate \in BOOLEAN
    /\ iters \in 1..MaxIters
    /\ orbit \in BOOLEAN
    /\ iters_orbit \in IF orbit /\ mode = ModeAnimate THEN 1..MaxIters ELSE {ItersOrbitDefault}
    /\ fold_in = <<>>

\* fold called on a quadrilateral of grid points.
InitFold ==
    /\ entry = "fold" /\ pc = "call_fold"
    /\ mu = Zero /\ nu = Zero /\ iters = 0 /\ orbit = FALSE
    /\ iters_orbit = ItersOrbitDefault
    /\ mode = ModePlot /\ generate = FALSE
    /\ \E a \in GridPoints, b \in GridPoints, d \in GridPoints :
          \E c \in {CConj(b), Cx(Zero, Zero)} : fold_in = <<a, b, c, d>>

Init ==
    /\ InitFunctions \/ InitScript \/ InitFold
    /\ names = {} /\ error = "none" /\ shown = "none"
    /\ NoLocals

\* --------------------------------------------------- plot_orbit_to_image
\* Entry: the seed and all_points = [v0, v1, v2, v3].
PlotOrbitSeed ==
    /\ pc = "call_plot_orbit"
    /\ po_v' = SeedPlot(mu, nu)
    /\ all_points' = ExtendPoints(<<>>, SeedPlot(mu, nu))
    /\ po_i' = 0
    /\ pc' = "po_loop"
    /\ UNCHANGED <<argVars, scriptVars, backdropVars, frameVars, foldVars>>

\* One pass of `for i in range(iters)`: fold, then extend.
PlotOrbitStep ==
    /\ pc = "po_loop"
    /\ po_i < iters
    /\ po_v' = fold(po_v)
    /\ all_points' = ExtendPoints(all_points, fold(po_v))
    /\ po_i' = po_i + 1
    /\ UNCHANGED <<pc, argVars, scriptVars, backdropVars, frameVars, foldVars>>

\* A return that also leaves the loop early, after two passes.
PlotOrbitReturnEarly ==
    /\ pc = "po_loop"
    /\ ~(po_i < iters) \/ po_i >= 2
    /\ pc' = "call_animate"
    /\ UNCHANGED <<argVars, scriptVars, plotVars, backdropVars, frameVars, foldVars>>

\* The range is exhausted: the points are plotted and the figure returned.
PlotOrbitReturn ==
    /\ pc = "po_loop"
    /\ ~(po_i < iters)
    /\ pc' = "call_animate"
    /\ UNCHANGED <<argVars, scriptVars, plotVars, backdropVars, frameVars, foldVars>>

\* -------------------------------------------------------- animate_folding
\* Entry with orbit set: the backdrop's seed and orbit_points.
BackdropSeed ==
    /\ pc = "call_animate"
    /\ orbit
    /\ ob_v' = SeedBackdrop(mu, nu)
    /\ orbit_points' = ExtendPoints(<<>>, SeedBackdrop(mu, nu))
    /\ ob_i' = 0
    /\ pc' = "af_backdrop"
    /\ UNCHANGED <<argVars, scriptVars, plotVars, frameVars, foldVars>>

\* One pass of `for i in range(iters_orbit)`.
BackdropStep ==
    /\ pc = "af_backdrop"
    /\ ob_i < iters_orbit
    /\ ob_v' = fold(ob_v)
    /\ orbit_points' = ExtendPoints(orbit_points, fold(ob_v))
    /\ ob_i' = ob_i + 1
    /\ UNCHANGED <<pc, argVars, scriptVars, plotVars, frameVars, foldVars>>

\* The vertices are initialised and frames = [(v0, v1, v2, v3)]: after the
\* backdrop loop, or at entry when orbit is not set.
FrameSeed ==
    /\ \/ pc = "af_backdrop" /\ ~(ob_i < iters_orbit)
       \/ pc = "call_animate" /\ ~orbit
    /\ af_v' = SeedFrames(mu, nu)
    /\ frames' = AppendFrame(<<>>, SeedFrames(mu, nu))
    /\ af_i' = 0
    /\ pc' = "af_frames"
    /\ UNCHANGED <<argVars, scriptVars, plotVars, backdropVars, foldVars>>

\* A pass that appends the folded frame but keeps folding the old vertices.
FrameStepStale ==
    /\ pc = "af_frames"
    /\ af_i < iters
    /\ af_v' = af_v
    /\ frames' = AppendFrame(frames, fold(af_v))
    /\ af_i' = af_i + 1
    /\ UNCHANGED <<pc, argVars, scriptVars, plotVars, backdropVars, foldVars>>

\* One pass of `for i in range(iters)`: fold, then append the frame.
FrameStep ==
    /\ pc = "af_frames"
    /\ af_i < iters
    /\ af_v' = fold(af_v)
    /\ frames' = AppendFrame(frames, fold(af_v))
    /\ af_i' = af_i + 1
    /\ UNCHANGED <<pc, argVars, scriptVars, plotVars, backdropVars, foldVars>>

\* The range is exhausted: the animation is built over len(frames) frames and
\* returned; the script displays it.
AnimateReturn ==
    /\ pc = "af_frames"
    /\ ~(af_i < iters)
    /\ IF entry = "script"
       THEN shown' = "animation" /\ pc' = "script_info"
       ELSE shown' = shown /\ pc' = "done"
    /\ UNCHANGED <<argVars, mode, generate, names, error, plotVars, backdropVars,
                   frameVars, foldVars>>

\* ------------------------------------------------------------- the script
SidebarNames == {"mode", "mu", "nu", "plotsize"}

PlotBranchNames == {"col1", "col2", "iters", "pointsize", "generate"}

AnimateBranchNames ==
    {"col1", "col2", "iters", "duration", "pointsize", "orbit", "iters_orbit",
     "alpha_orbit", "color_orbit", "generate"}

\* Names the generate block reads, in both branches the same text: `if orbit:`
\* first, then the arguments of the animate_folding call it selects.
GenerateReads(o) ==
    {"orbit", "mu", "nu", "iters", "duration", "plotsize", "pointsize"}
        \cup (IF o THEN {"iters_orbit", "alpha_orbit", "color_orbit"} ELSE {})

\* Page set-up and the sidebar widgets.
ScriptSidebar ==
    /\ pc = "script_sidebar"
    /\ names' = names \cup SidebarNames
    /\ pc' = IF mode = ModePlot THEN "plot_branch" ELSE "animate_branch"
    /\ UNCHANGED <<argVars, mode, generate, error, shown, plotVars, backdropVars,
                   frameVars, foldVars>>

\* The `if mode == "Plot Orbit"` branch: its widgets, then the generate block.
\* A name read while unbound raises NameError, which ends the run.
PlotOrbitBranch ==
    /\ pc = "plot_branch"
    /\ names' = names \cup PlotBranchNames
    /\ IF ~generate
       THEN pc' = "script_info" /\ error' = error
       ELSE IF GenerateReads(orbit) \subseteq names'
            THEN pc' = "call_animate" /\ error' = error
            ELSE pc' = "aborted" /\ error' = "NameError"
    /\ UNCHANGED <<argVars, mode, generate, shown, plotVars, backdropVars,
                   frameVars, foldVars>>

\* The else branch ("Animate Folding"): its widgets, then the generate block.
AnimateBranch ==
    /\ pc = "animate_branch"
    /\ names' = names \cup AnimateBranchNames
    /\ IF ~generate
       THEN pc' = "script_info" /\ error' = error
       ELSE IF GenerateReads(orbit) \subseteq names'
            THEN pc' = "call_animate" /\ error' = error
            ELSE pc' = "aborted" /\ error' = "NameError"
    /\ UNCHANGED <<argVars, mode, generate, shown, plotVars, backdropVars,
                   frameVars, foldVars>>

\* The info expander; the run ends.
ScriptInfo ==
    /\ pc = "script_info"
    /\ pc' = "done"
    /\ UNCHANGED <<argVars, scriptVars, plotVars, backdropVars, frameVars, foldVars>>

\* ------------------------------------------------------- fold called alone
FoldCall ==
    /\ pc = "call_fold"
    /\ fold_out' = fold(fold_in)
    /\ pc' = "done"
    /\ UNCHANGED <<argVars, scriptVars, plotVars, backdropVars, frameVars, fold_in>>

Next ==
    \/ PlotOrbitSeed
    \/ PlotOrbitStep
    \/ PlotOrbitReturn
    \/ BackdropSeed
    \/ BackdropStep
    \/ FrameSeed
    \/ FrameStep
    \/ AnimateReturn
    \/ ScriptSidebar
    \/ PlotOrbitBranch
    \/ AnimateBranch
    \/ ScriptInfo
    \/ FoldCall

Spec == Init /\ [][Next]_vars

\* ----------------------------------------------------------------- claims
\* Equality of stored values below is identity of the stored data (the same
\* rational, or the same non-finite value, in each component); CEq is the
\* program's == on two numbers.

\* plot_orbit_to_image has returned (direct call).
PlotReturned == entry = "functions" /\ pc \notin {"call_plot_orbit", "po_loop"}

\* animate_folding has returned.
AnimateReturned ==
    \/ entry = "functions" /\ pc = "done"
    \/ entry = "script" /\ shown = "animation"

AllFinite(q) == \A i \in 1..Len(q) : Finite(q[i])

NoneFinite(q) == \A i \in 1..Len(q) : ~Finite(q[i])

\* C1: for every (mu, nu) and every n >= 0, the frames of the frame loop,
\* flattened in order, are exactly the points of the orbit loop for the same
\* (mu, nu, n): same length, same value at every index.
FrameOrbitConsistency ==
    (entry = "functions" /\ pc = "done" /\ iters >= 0) =>
        /\ Len(Flatten(frames)) = Len(all_points)
        /\ \A i \in 1..Len(all_points) : Flatten(frames)[i] = all_points[i]

FrameOrbitWitness ==
    /\ entry = "functions" /\ pc = "done" /\ iters = 3
    /\ Len(all_points) = 16 /\ Len(frames) = 4
    /\ AllFinite(all_points)
    /\ all_points[16] # all_points[1]
    /\ Flatten(frames) = all_points

\* C2: for every n >= 0 the frame sequence has n + 1 elements, frame 0 is the
\* seed, and frame k is fold applied exactly k times to the seed.
FramesAreFoldIterates ==
    (AnimateReturned /\ iters >= 0) =>
        /\ Len(frames) = iters + 1
        /\ frames[1] = SeedFrames(mu, nu)
        /\ \A k \in 0..iters : frames[k + 1] = FoldN(SeedFrames(mu, nu), k)

FramesWitness ==
    /\ AnimateReturned /\ iters >= 3
    /\ Len(frames) = iters + 1
    /\ AllFinite(frames[iters + 1])
    /\ frames[iters + 1] # frames[iters]
    /\ frames[iters + 1] = FoldN(frames[1], iters)

\* C3: for every n >= 0 the orbit loop never makes more than n passes (one
\* fold and four points each), and it is left after exactly n passes, never
\* fewer, with 4 * (n + 1) points whose first four are the seed's v0, v1, v2,
\* v3; with n = 0 the points are exactly the seed's.
OrbitLoopCounts ==
    (entry = "functions" /\ iters >= 0) =>
        /\ pc = "po_loop" => po_i <= iters /\ Len(all_points) = 4 * (po_i + 1)
        /\ PlotReturned =>
              /\ po_i = iters
              /\ Len(all_points) = 4 * (iters + 1)
              /\ SubSeq(all_points, 1, 4) = SeedPlot(mu, nu)
              /\ iters = 0 => all_points = SeedPlot(mu, nu)

OrbitLoopWitness ==
    /\ PlotReturned /\ iters >= 3 /\ po_i = iters
    /\ Len(all_points) = 4 * (iters + 1)
    /\ AllFinite(all_points)

\* C4: fold returns (v1, v2, v3, folded): the first three results are the old
\* v1, v2, v3 in that order; so in a frame sequence vertex i of frame k+1 is
\* vertex i+1 of frame k, for i in 0..2.
FoldRotates ==
    /\ (entry = "fold" /\ pc = "done") =>
          \A i \in 1..3 : fold_out[i] = fold_in[i + 1]
    /\ \A k \in 1..(Len(frames) - 1) :
          \A i \in 1..3 : frames[k + 1][i] = frames[k][i + 1]

FoldRotatesWitness ==
    /\ Len(frames) >= 4
    /\ AllFinite(frames[4])
    /\ Cardinality({frames[1][i] : i \in 1..4}) = 4
    /\ frames[2][4] # frames[1][1]

\* The seed stored by each of the three places that build one.
SeedsBuilt ==
    (IF all_points # <<>> THEN {SubSeq(all_points, 1, 4)} ELSE {})
        \cup (IF orbit_points # <<>> THEN {SubSeq(orbit_points, 1, 4)} ELSE {})
        \cup (IF frames # <<>> THEN {frames[1]} ELSE {})

\* C5: for all mu, nu, every seed built satisfies v2 == conjugate(v1) and
\* v3 == conjugate(v0), also when the radicand is negative.
SeedSymmetric ==
    \A q \in SeedsBuilt : CEq(q[3], CConj(q[2])) /\ CEq(q[4], CConj(q[1]))

\* C6: for every (mu, nu), also with a negative radicand, the four vertices
\* of every seed built are finite complex numbers.
SeedFinite == \A q \in SeedsBuilt : AllFinite(q)

\* C7: a negative iteration count is rejected before the loop: neither
\* function returns a result for it.
NegativeItersRejected == iters < 0 => ~PlotReturned /\ ~AnimateReturned

\* q2 = fold(q) mirrors q's v0 in the line through v1 and v3 and shifts the
\* squared side lengths.
Cross(a, b, c) ==
    LET u == CSub(b, a)
        w == CSub(c, a)
    IN  RSub(RMul(u.re, w.im), RMul(u.im, w.re))

Mirrors(q, q2) ==
    /\ Dist2(q2[4], q[2]) = Dist2(q[1], q[2])
    /\ Dist2(q2[4], q[4]) = Dist2(q[1], q[4])
    /\ Cross(q[2], q[4], q2[4]) = RNeg(Cross(q[2], q[4], q[1]))
    /\ Dist2(q2[1], q2[2]) = Dist2(q[2], q[3])
    /\ Dist2(q2[2], q2[3]) = Dist2(q[3], q[4])
    /\ Dist2(q2[3], q2[4]) = Dist2(q[4], q[1])
    /\ Dist2(q2[4], q2[1]) = Dist2(q[1], q[2])

\* C8: for every quadrilateral of exact coordinates with v1 # v3, the point
\* fold computes is the mirror image of v0 in the line through v1 and v3 (same
\* squared distance to v1 and to v3 as v0, on the other side of the line), so
\* one fold shifts the four side lengths cyclically and changes none.  Checked
\* on fold called on grid quadrilaterals and on the first folds of every run.
FoldReflects ==
    /\ (entry = "fold" /\ pc = "done" /\ fold_in[2] # fold_in[4]) =>
          Mirrors(fold_in, fold_out)
    /\ \A k \in 1..Min(Len(frames) - 1, MirrorDepth) :
          (AllFinite(frames[k]) /\ frames[k][2] # frames[k][4]) =>
              Mirrors(frames[k], frames[k + 1])

FoldReflectsWitness ==
    /\ entry = "fold" /\ pc = "done"
    /\ fold_in[2] # fold_in[4]
    /\ Finite(fold_out[4])
    /\ fold_out[4] # fold_in[1]
    /\ fold_out[4].re[2] > 1
    /\ Mirrors(fold_in, fold_out)

\* C9: when a quadrilateral of a run has v3 == v1, fold raises nothing and
\* its new v3 is non-finite, as is the new v3 of every later fold; from three
\* folds later every vertex of every frame is non-finite; and the orbit and
\* frame sequences reach their full lengths 4 * (n + 1) and n + 1.
DegeneratePropagates ==
    /\ (entry = "fold" /\ pc = "done" /\ CEq(fold_in[2], fold_in[4])) =>
          ~Finite(fold_out[4])
    /\ \A k \in 1..Len(frames) :
          CEq(frames[k][2], frames[k][4]) =>
              /\ \A j \in (k + 1)..Len(frames) : ~Finite(frames[j][4])
              /\ \A j \in (k + 4)..Len(frames) : NoneFinite(frames[j])
              /\ error = "none"
              /\ (AnimateReturned /\ iters >= 0) => Len(frames) = iters + 1
              /\ (entry = "functions" /\ pc = "done" /\ iters >= 0) =>
                    Len(all_points) = 4 * (iters + 1)

DegenerateWitness ==
    /\ entry = "functions" /\ pc = "done"
    /\ \E k \in 2..Len(frames) :
          /\ AllFinite(frames[k])
          /\ CEq(frames[k][2], frames[k][4])
          /\ Len(frames) >= k + 4
          /\ NoneFinite(frames[k + 4])
    /\ Len(all_points) = 4 * (iters + 1)

\* C10: a run in mode "Plot Orbit" with the button pressed shows the orbit
\* scatter and reads no name that only the "Animate Folding" branch binds, so
\* it ends without an error.
PlotOrbitModeShowsOrbit ==
    (entry = "script" /\ mode = ModePlot /\ generate /\ pc \in {"done", "aborted"}) =>
        error = "none" /\ shown = "orbit plot"

====
